---- MODULE Spec2Model ----
(***************************************************************************)
(* A model of gaze's file watcher: pkg/notify (directory resolution, the   *)
(* feed task that normalizes raw watch events) and pkg/gazer (the          *)
(* dispatcher loop that runs and supervises commands).                     *)
(*                                                                         *)
(* Names are sequences of path segments (<<"d", "f.txt">> is d/f.txt).     *)
(* Times are nanoseconds, as time.Now() and GetFileModifiedTime return.    *)
(***************************************************************************)
EXTENDS Integers, Sequences, FiniteSets, TLC

\* ------------------------------------------------------------------ bounds
\* commands the dispatcher may create in one behaviour
MaxProcs == 3
\* events that may pass the dispatcher's filters in one behaviour
MaxCounter == 3
\* clock ticks of the dispatcher's environment
MaxGTicks == 2
\* raw events the watch source reports in one behaviour
MaxRaw == 2
\* raw errors that may wait on watcher.Errors
MaxErrors == 1
\* clock ticks of the notifier's environment
MaxNTicks == 2
\* patterns in one call of New
MaxPatterns == 2
\* the largest maxWatchDirs New is called with
MaxWatch == 3
\* tasks that call Close, and Close calls in one behaviour
MaxClosers == 2
MaxCloseCalls == 3

\* --------------------------------------------------------------- constants
\* the literal 1000000 (nanoseconds per millisecond) of gazer.go:64
NsPerMs == 1000000
\* gazer.go:64: var ignorePeriod int64 = 10 * 1000000
ignorePeriod == 10 * NsPerMs

None == <<>>

\* ------------------------------------------------- the dispatcher's inputs
FileA == <<"a.txt">>
FileB == <<"b.md">>
FileC == <<"c.log">>
GazerNames == {FileA, FileB, FileC}
\* a second file with a command rule
FileD == <<"d.txt">>

\* Gazer.patterns, already cleaned by gazer.New
patterns == <<"*.txt", "*.md">>

\* fs.GlobMatch(pattern, name): the glob capability, by the names each of the
\* model's patterns accepts.
GlobMatch(f, s) ==
    \/ f = "*.txt" /\ s \in {FileA, FileD}
    \/ f = "*.md" /\ s = FileB

\* matchAny: the first pattern that matches decides.
matchAny(watchFiles, s) ==
    \E i \in 1..Len(watchFiles) : GlobMatch(watchFiles[i], s)

\* A run template is a sequence of words, each a sequence of strings; the empty
\* sequence is Go's empty string.
FilePlaceholder == <<"{file}">>

\* config.Config.Commands: the second rule is the one that can match; the first has
\* neither Ext nor Re, the third has no Run.
commandConfigs ==
    << [Ext |-> "", Re |-> "", Run |-> << <<"true">> >>],
       [Ext |-> ".txt", Re |-> "", Run |-> << <<"echo">>, FilePlaceholder >>],
       [Ext |-> ".md", Re |-> "", Run |-> << >>] >>

\* config.Command.Match: the rule's predicate, by the names each extension accepts.
Match(c, filePath) ==
    \/ c.Ext = ".txt" /\ filePath \in {FileA, FileD}
    \/ c.Ext = ".md" /\ filePath = FileB
    \/ c.Ext = "" /\ c.Re = ""

\* render: the template with the placeholder replaced by the file path.
render(run, filePath) ==
    [i \in 1..Len(run) |-> IF run[i] = FilePlaceholder THEN filePath ELSE run[i]]

\* getAppropriateCommand, lines 140-153: the first usable rule that matches,
\* rendered; the empty string when there is none.
Usable(c) == ~(c.Run = << >> \/ (c.Ext = "" /\ c.Re = ""))

getAppropriateCommand(filePath, configs) ==
    LET hits == {i \in 1..Len(configs) : Usable(configs[i]) /\ Match(configs[i], filePath)}
    IN  IF hits = {} THEN << >>
        ELSE LET first == CHOOSE i \in hits : \A j \in hits : i <= j
             IN  render(configs[first].Run, filePath)

VARIABLES
    now,                \* the clock, time.Now()
    mtime,              \* mtime[name]: GetFileModifiedTime(name)
    restart,            \* Run's parameter
    timeout,            \* Run's parameter, seconds
    gPc,                \* where repeatRunAndWait is: "select", "wait", "returned"
    isDisposed,
    counter,            \* Gazer.counter
    lastExecutionTime,  \* the loop's local
    ongoingCommand,     \* the loop's local: 0 is nil, i > 0 is procs[i]
    procs,              \* every exec.Cmd created so far
    sigInt,             \* a signal is pending on the channel of sigIntChannel()
    gEvents,            \* the send pending on g.notify.Events, or None
    hangs,              \* the configured command never finishes on its own
    fkind,              \* fkind[name]: "none", "file" or "dir" (fs.IsFile, fs.IsDir)
    watched,            \* the directories added to the fsnotify watcher
    rawQ,               \* raw events waiting on watcher.Events, oldest first
    rawErrors,          \* raw errors waiting on watcher.Errors, oldest first
    times,              \* Notify.times
    nPc,                \* where wait() is: "select", "sendEvent", "sendError"
    nEvent,             \* the Event wait() is sending, or None
    cPc,                \* the consumer of Events: "recv", "busy", "requeue"
    received,           \* history: the events the consumer received, in order
    requeued,           \* the event the consumer passed to Requeue, or None
    rqPc,               \* a task calling Requeue for the consumer: "none",
                        \* "sending" (in the send of line 226) or "done"
    pendingPeriod,      \* Notify.pendingPeriod, milliseconds
    rawLog,             \* history: what wait() did with each raw event
    ticks,              \* how often the notifier's clock has advanced
    kPatterns,          \* New's argument patterns
    kMax,               \* New's argument maxWatchDirs
    kWatcherOk,         \* whether fsnotify.NewWatcher succeeds
    kResult,            \* "pending", then how New ended
    kWatchDirs,         \* what findDirs returned to New
    gBuilt,             \* gazer.New has returned a Gazer to its caller
    hasNotify,          \* whether Gazer.notify is a Notifier (not nil)
    nIsClosed,          \* Notify.isClosed
    gIsClosed,          \* Gazer.isClosed
    watcherCloses,      \* how often watcher.Close() has been called
    closePc,            \* closePc[t]: where task t is in Close
    closeFn,            \* closeFn[t]: which Close task t called
    closeCalls          \* how many Close calls have been made

tvars == <<now, mtime>>
gvars == <<restart, timeout, gPc, isDisposed, counter, lastExecutionTime,
           ongoingCommand, procs, sigInt, gEvents, hangs>>
nvars == <<fkind, watched, rawQ, rawErrors, times, nPc, nEvent, cPc, received,
           requeued, rqPc, pendingPeriod, rawLog, ticks>>
kvars == <<kPatterns, kMax, kWatcherOk, kResult, kWatchDirs, gBuilt>>
cvars == <<hasNotify, nIsClosed, gIsClosed, watcherCloses, closePc, closeFn,
           closeCalls>>
xvars == <<kvars, cvars>>
vars == <<tvars, gvars, nvars, xvars>>

\* the state of the parts a specification leaves out
IdleGazer ==
    /\ restart = FALSE
    /\ timeout = 0
    /\ gPc = "select"
    /\ isDisposed = FALSE
    /\ counter = 0
    /\ lastExecutionTime = 0
    /\ ongoingCommand = 0
    /\ procs = << >>
    /\ sigInt = FALSE
    /\ gEvents = None
    /\ hangs = FALSE

\* notify.go:81: New sets pendingPeriod to 100
DefaultPendingPeriod == 100

IdleNotify ==
    /\ fkind = << >>
    /\ watched = {}
    /\ rawQ = << >>
    /\ rawErrors = << >>
    /\ times = << >>
    /\ nPc = "select"
    /\ nEvent = None
    /\ cPc = "recv"
    /\ received = << >>
    /\ requeued = None
    /\ rqPc = "none"
    /\ pendingPeriod = DefaultPendingPeriod
    /\ rawLog = << >>
    /\ ticks = 0

GetFileModifiedTime(name) == mtime[name]

IdleNew ==
    /\ kPatterns = << >>
    /\ kMax = 0
    /\ kWatcherOk = TRUE
    /\ kResult = "ok"
    /\ kWatchDirs = << >>
    /\ gBuilt = TRUE

IdleClose ==
    /\ hasNotify = TRUE
    /\ nIsClosed = FALSE
    /\ gIsClosed = FALSE
    /\ watcherCloses = 0
    /\ closePc = << >>
    /\ closeFn = << >>
    /\ closeCalls = 0

\* ---------------------------------------------------------------- processes
\* A command: cmd is the rendered command string; st is "created" (exec.Cmd
\* made, not started), "running", "exited" or "killed"; sup is the task inside executeCommandOrTimeout: "sync" (the
\* loop itself), "go" (the goroutine of line 112) or "done" (that goroutine
\* has ended). Every command is rendered from the one rule with a Run
\* template, so whether a process finishes on its own (hangs) is a property
\* of the configuration, fixed for a behaviour.
Alive(i) == procs[i].st = "running"
Over(i) == procs[i].st \in {"exited", "killed"}

\* kill(cmd, reason): forcibly terminates the process; killing a process that
\* is already over fails and changes nothing.
kill(ps, i) ==
    IF ps[i].st \in {"created", "running"}
    THEN [ps EXCEPT ![i].st = "killed"]
    ELSE ps

\* createCommand(commandString): a new exec.Cmd for the command, not started.
createCommand(ps, commandString, sup) ==
    Append(ps, [cmd |-> commandString, st |-> "created", sup |-> sup])

GStart == ignorePeriod
GTick == ignorePeriod

InitGazer ==
    /\ now = GStart
    /\ mtime = [n \in GazerNames |-> GStart]
    /\ restart \in BOOLEAN
    /\ timeout \in {0, 1}
    /\ gPc = "select"
    /\ isDisposed = FALSE
    /\ counter = 0
    /\ lastExecutionTime = 0
    /\ ongoingCommand = 0
    /\ procs = << >>
    /\ sigInt = FALSE
    /\ gEvents = None
    /\ hangs \in BOOLEAN
    /\ IdleNotify
    /\ IdleNew
    /\ IdleClose

\* ------------------------------------------------------------- environment
GTickClock ==
    /\ now + GTick <= GStart + MaxGTicks * GTick
    /\ now' = now + GTick
    /\ UNCHANGED <<mtime, xvars, gvars, nvars>>

\* a file is written: its modification time becomes now
GModify(n) ==
    /\ mtime[n] # now
    /\ mtime' = [mtime EXCEPT ![n] = now]
    /\ UNCHANGED <<now, xvars, gvars, nvars>>

\* a sender (the feed task, or Requeue) blocks on g.notify.Events with an event
GOffer(n) ==
    /\ gEvents = None
    /\ gEvents' = n
    /\ UNCHANGED <<tvars, nvars, xvars, restart, timeout, gPc, isDisposed, counter,
                   lastExecutionTime, ongoingCommand, procs, sigInt, hangs>>

\* the external interrupt signal is delivered
Interrupt ==
    /\ ~sigInt
    /\ gPc # "returned"
    /\ sigInt' = TRUE
    /\ UNCHANGED <<tvars, nvars, xvars, restart, timeout, gPc, isDisposed, counter,
                   lastExecutionTime, ongoingCommand, procs, gEvents, hangs>>

\* ------------------------------------------------- repeatRunAndWait, 69-125
\* ongoingCommand (line 66) is shared, without synchronisation, by the loop
\* (read at 97 and 98, written at 99 and 111) and by every goroutine of line
\* 112 (written at 117). A goroutine whose process is over, the process killed
\* at line 98 included, may write its nil while the loop is between 98 and
\* 111: the loop's write at 111 then comes last and the handle stays.
\* Returning(ps) are the goroutines that can do so and EndSupervision(ps, S)
\* lets those of S end. A write of nil before line 97 is SupervisionEnds
\* followed by ReceiveEvent, one after line 111 is ReceiveEvent followed by
\* SupervisionEnds.
Returning(ps) ==
    {i \in 1..Len(ps) : ps[i].sup = "go" /\ ps[i].st \in {"exited", "killed"}}

EndSupervision(ps, S) ==
    [i \in 1..Len(ps) |-> IF i \in S THEN [ps[i] EXCEPT !.sup = "done"] ELSE ps[i]]

\* ReceiveEvent with the kill of lines 97-100 and the time stamp of line 103
\* done before the command is looked up
ReceiveEventKillsFirst ==
    /\ gPc = "select"
    /\ gEvents # None
    /\ counter < MaxCounter
    /\ Len(procs) < MaxProcs
    /\ gEvents' = None
    /\ UNCHANGED <<tvars, nvars, xvars, restart, timeout, isDisposed, sigInt, hangs>>
    /\ LET name == gEvents
           modifiedTime == GetFileModifiedTime(name)
           commandString == getAppropriateCommand(name, commandConfigs)
       IN  IF ~matchAny(patterns, name)
           THEN UNCHANGED <<gPc, counter, lastExecutionTime, ongoingCommand, procs>>
           ELSE IF (modifiedTime - lastExecutionTime) < ignorePeriod
           THEN UNCHANGED <<gPc, counter, lastExecutionTime, ongoingCommand, procs>>
           ELSE LET killed == IF ongoingCommand # 0
                              THEN kill(procs, ongoingCommand)
                              ELSE procs
                    cmd == Len(procs) + 1
                IN  /\ counter' = counter + 1
                    /\ lastExecutionTime' = now
                    /\ IF commandString = << >>
                       THEN /\ procs' = killed
                            /\ ongoingCommand' = 0
                            /\ UNCHANGED gPc
                       ELSE IF ~restart
                       THEN /\ procs' = [createCommand(killed, commandString, "sync")
                                            EXCEPT ![cmd].st = "running"]
                            /\ ongoingCommand' = 0
                            /\ gPc' = "wait"
                       ELSE \E ended \in SUBSET Returning(killed) :
                            /\ procs' = createCommand(EndSupervision(killed, ended),
                                                      commandString, "go")
                            /\ ongoingCommand' = cmd
                            /\ gPc' = "select"

\* the select's first case, lines 74-119, for the event pending on the channel
ReceiveEvent ==
    /\ gPc = "select"
    /\ gEvents # None
    /\ counter < MaxCounter
    /\ Len(procs) < MaxProcs
    /\ gEvents' = None
    /\ UNCHANGED <<tvars, nvars, xvars, restart, timeout, isDisposed, sigInt, hangs>>
    /\ LET name == gEvents
           modifiedTime == GetFileModifiedTime(name)
           commandString == getAppropriateCommand(name, commandConfigs)
       IN  IF ~matchAny(patterns, name)
           THEN UNCHANGED <<gPc, counter, lastExecutionTime, ongoingCommand, procs>>
           ELSE IF (modifiedTime - lastExecutionTime) < ignorePeriod
           THEN UNCHANGED <<gPc, counter, lastExecutionTime, ongoingCommand, procs>>
           ELSE /\ counter' = counter + 1
                /\ IF commandString = << >>
                   THEN UNCHANGED <<gPc, lastExecutionTime, ongoingCommand, procs>>
                   ELSE LET killed == IF ongoingCommand # 0
                                      THEN kill(procs, ongoingCommand)
                                      ELSE procs
                            cmd == Len(procs) + 1
                        IN  /\ lastExecutionTime' = now
                            /\ IF ~restart
                               THEN \* executeCommandOrTimeout starts the process
                                    \* and the loop waits in it
                                    /\ procs' = [createCommand(killed, commandString, "sync")
                                                    EXCEPT ![cmd].st = "running"]
                                    /\ ongoingCommand' = 0
                                    /\ gPc' = "wait"
                               ELSE \* the goroutines in ended write nil at
                                    \* line 117 before the loop writes the
                                    \* new handle at line 111; the others
                                    \* write theirs later (SupervisionEnds)
                                    \E ended \in SUBSET Returning(killed) :
                                    /\ procs' = createCommand(EndSupervision(killed, ended),
                                                              commandString, "go")
                                    /\ ongoingCommand' = cmd
                                    /\ gPc' = "select"

\* the interrupt case without its return: the signal is taken and the loop goes on
TakeSigIntNoReturn ==
    /\ gPc = "select"
    /\ sigInt
    /\ sigInt' = FALSE
    /\ UNCHANGED <<tvars, nvars, xvars, restart, timeout, gPc, isDisposed, counter,
                   lastExecutionTime, ongoingCommand, procs, gEvents, hangs>>

\* the select's second case, lines 121-123
TakeSigInt ==
    /\ gPc = "select"
    /\ sigInt
    /\ sigInt' = FALSE
    /\ isDisposed' = TRUE
    /\ gPc' = "returned"
    /\ UNCHANGED <<tvars, nvars, xvars, restart, timeout, counter, lastExecutionTime,
                   ongoingCommand, procs, gEvents, hangs>>

\* ------------------------------------------------- executeCommandOrTimeout
\* the goroutine of line 112 reaches executeCommandOrTimeout, which starts the
\* process
StartProcess(i) ==
    /\ procs[i].st = "created"
    /\ procs[i].sup = "go"
    /\ procs' = [procs EXCEPT ![i].st = "running"]
    /\ UNCHANGED <<tvars, nvars, xvars, restart, timeout, gPc, isDisposed, counter,
                   lastExecutionTime, ongoingCommand, sigInt, gEvents, hangs>>

\* the process finishes on its own (with or without an error)
ProcessExits(i) ==
    /\ Alive(i)
    /\ ~hangs
    /\ procs' = [procs EXCEPT ![i].st = "exited"]
    /\ UNCHANGED <<tvars, nvars, xvars, restart, timeout, gPc, isDisposed, counter,
                   lastExecutionTime, ongoingCommand, sigInt, gEvents, hangs>>

\* timeout > 0 and the process has not finished by then: it is killed
TimeoutKill(i) ==
    /\ timeout > 0
    /\ Alive(i)
    /\ procs[i].sup # "done"
    /\ procs' = kill(procs, i)
    /\ UNCHANGED <<tvars, nvars, xvars, restart, timeout, gPc, isDisposed, counter,
                   lastExecutionTime, ongoingCommand, sigInt, gEvents, hangs>>

\* WaitReturns with the error of a timed-out command ending the loop
WaitReturnsFatal ==
    /\ gPc = "wait"
    /\ Over(Len(procs))
    /\ gPc' = IF procs[Len(procs)].st = "killed" THEN "returned" ELSE "select"
    /\ UNCHANGED <<tvars, nvars, xvars, restart, timeout, isDisposed, counter,
                   lastExecutionTime, ongoingCommand, procs, sigInt, gEvents, hangs>>

\* WaitReturns with the time of the last dispatch taken at the end of the run
WaitReturnsStamps ==
    /\ gPc = "wait"
    /\ Over(Len(procs))
    /\ gPc' = "select"
    /\ lastExecutionTime' = now
    /\ UNCHANGED <<tvars, nvars, xvars, restart, timeout, isDisposed, counter,
                   ongoingCommand, procs, sigInt, gEvents, hangs>>

\* blocking mode, lines 105-108: executeCommandOrTimeout returns to the loop
WaitReturns ==
    /\ gPc = "wait"
    /\ Over(Len(procs))
    /\ gPc' = "select"
    /\ UNCHANGED <<tvars, nvars, xvars, restart, timeout, isDisposed, counter,
                   lastExecutionTime, ongoingCommand, procs, sigInt, gEvents, hangs>>

\* restartable mode, lines 113-117: executeCommandOrTimeout returns in the
\* goroutine, which clears the handle
SupervisionEnds(i) ==
    /\ procs[i].sup = "go"
    /\ Over(i)
    /\ procs' = [procs EXCEPT ![i].sup = "done"]
    /\ ongoingCommand' = 0
    /\ UNCHANGED <<tvars, nvars, xvars, restart, timeout, gPc, isDisposed, counter,
                   lastExecutionTime, sigInt, gEvents, hangs>>

NextGazer ==
    \/ GTickClock
    \/ \E n \in {FileA, FileB} : GModify(n)
    \/ \E n \in GazerNames : GOffer(n)
    \/ Interrupt
    \/ ReceiveEvent
    \/ TakeSigInt
    \/ \E i \in 1..Len(procs) : StartProcess(i)
    \/ \E i \in 1..Len(procs) : ProcessExits(i)
    \/ \E i \in 1..Len(procs) : TimeoutKill(i)
    \/ WaitReturns
    \/ \E i \in 1..Len(procs) : SupervisionEnds(i)

SpecGazer == InitGazer /\ [][NextGazer]_vars

\* Scheduling: Go's select chooses among its ready cases at random, so a case
\* that is ready again and again is eventually taken (strong fairness); a
\* runnable goroutine eventually runs, a process that does not hang eventually
\* exits, and time.After fires when timeout > 0 (weak fairness).
FairSpecGazer ==
    /\ SpecGazer
    /\ SF_vars(TakeSigInt)
    /\ WF_vars(WaitReturns)
    /\ WF_vars(\E i \in 1..Len(procs) : StartProcess(i))
    /\ WF_vars(\E i \in 1..Len(procs) : ProcessExits(i))
    /\ WF_vars(\E i \in 1..Len(procs) : TimeoutKill(i))
    /\ WF_vars(\E i \in 1..Len(procs) : SupervisionEnds(i))

\* the dispatcher with two files that both have a command rule
DebounceNames == {FileA, FileD}

InitDebounce ==
    /\ now = GStart
    /\ mtime = [n \in DebounceNames |-> GStart]
    /\ restart \in BOOLEAN
    /\ timeout \in {0, 1}
    /\ gPc = "select"
    /\ isDisposed = FALSE
    /\ counter = 0
    /\ lastExecutionTime = 0
    /\ ongoingCommand = 0
    /\ procs = << >>
    /\ sigInt = FALSE
    /\ gEvents = None
    /\ hangs = FALSE
    /\ IdleNotify
    /\ IdleNew
    /\ IdleClose

NextDebounce ==
    \/ GTickClock
    \/ \E n \in DebounceNames : GModify(n)
    \/ \E n \in DebounceNames : GOffer(n)
    \/ ReceiveEvent
    \/ \E i \in 1..Len(procs) : StartProcess(i)
    \/ \E i \in 1..Len(procs) : ProcessExits(i)
    \/ \E i \in 1..Len(procs) : TimeoutKill(i)
    \/ WaitReturns
    \/ \E i \in 1..Len(procs) : SupervisionEnds(i)

SpecDebounce == InitDebounce /\ [][NextDebounce]_vars

\* ======================================================== pkg/notify: wait()
\* fsnotify.Op bits
OpCreate == 1
OpWrite == 2 * OpCreate
OpRemove == 2 * OpWrite
OpRename == 2 * OpRemove
OpChmod == 2 * OpRename

\* notify.go:82-83, fields New sets
regardRenameAsModPeriod == 1000
detectCreate == TRUE
\* New makes Events with make(chan Event), unbuffered, and leaves Errors unset:
\* Errors is the nil channel, on which a send or a receive blocks forever.

\* the names the watch source reports, as it reports them
Root == <<".">>
DirD == <<"d">>
NFileA == <<"a.txt">>
NFileF == <<"d", "f.txt">>
NFiles == {NFileA, NFileF}
NDirs == {DirD}
\* the watch of d reports its files as d/./f.txt
RawNames == {NFileA, <<"d", ".", "f.txt">>, DirD}

\* filepath.Clean on a relative path: "." and empty segments go, ".." removes
\* the segment before it, and the empty result is ".".
RECURSIVE CleanSegs(_, _)
CleanSegs(segs, acc) ==
    IF segs = << >> THEN acc
    ELSE LET s == Head(segs)
         IN  IF s = "." \/ s = ""
             THEN CleanSegs(Tail(segs), acc)
             ELSE IF s = ".." /\ acc # << >> /\ acc[Len(acc)] # ".."
             THEN CleanSegs(Tail(segs), SubSeq(acc, 1, Len(acc) - 1))
             ELSE CleanSegs(Tail(segs), Append(acc, s))

Clean(name) ==
    LET c == CleanSegs(name, << >>) IN IF c = << >> THEN Root ELSE c

\* the directory a name lives in
Dir(name) == IF Len(name) <= 1 THEN Root ELSE SubSeq(name, 1, Len(name) - 1)

IsFile(name) == name \in DOMAIN fkind /\ fkind[name] = "file"
IsDir(name) == name = Root \/ (name \in DOMAIN fkind /\ fkind[name] = "dir")

\* a Go map read: the zero value for a missing key
MapGet(m, k) == IF k \in DOMAIN m THEN m[k] ELSE 0
MapPut(m, k, v) == [x \in DOMAIN m \cup {k} |-> IF x = k THEN v ELSE m[x]]

\* shouldExecute without the pendingPeriod test of its write branch
shouldExecuteNoCoalesce(filePath, op) ==
    /\ op = OpWrite \/ op = OpRename \/ (detectCreate /\ op = OpCreate)
    /\ IsFile(filePath)
    /\ op = OpRename =>
          ~(now - GetFileModifiedTime(filePath) > regardRenameAsModPeriod * NsPerMs)

\* shouldExecute with the rename branch consulting times as the write branch does
shouldExecuteRenameDebounced(filePath, op) ==
    /\ op = OpWrite \/ op = OpRename \/ (detectCreate /\ op = OpCreate)
    /\ IsFile(filePath)
    /\ ~(GetFileModifiedTime(filePath) - MapGet(times, filePath)
            < pendingPeriod * NsPerMs)
    /\ op = OpRename =>
          ~(now - GetFileModifiedTime(filePath) > regardRenameAsModPeriod * NsPerMs)

\* shouldExecute, lines 180-217
shouldExecute(filePath, op) ==
    IF op # OpWrite /\ op # OpRename /\ ~(detectCreate /\ op = OpCreate)
    THEN FALSE
    ELSE LET last == MapGet(times, filePath)
         IN  IF ~IsFile(filePath) THEN FALSE
             ELSE LET modifiedTime == GetFileModifiedTime(filePath)
                  IN  IF (op = OpWrite \/ op = OpCreate)
                         /\ modifiedTime - last < pendingPeriod * NsPerMs
                      THEN FALSE
                      ELSE IF op = OpRename
                              /\ now - modifiedTime > regardRenameAsModPeriod * NsPerMs
                      THEN FALSE
                      ELSE TRUE

\* the clock starts late enough for a first modification time to be at least
\* every pendingPeriod a caller sets, as a real timestamp (nanoseconds since
\* 1970) is
NStart == DefaultPendingPeriod * NsPerMs
NShort == (DefaultPendingPeriod \div 2) * NsPerMs
NLong == regardRenameAsModPeriod * NsPerMs
\* a period shorter than the shortest time between two modifications
ShortPendingPeriod == DefaultPendingPeriod \div 10
\* TLC's integers are 32 bits wide: the clock stays below 2^31 nanoseconds
NHorizon == NStart + NLong + 2 * NShort

InitNotify ==
    /\ now = NStart
    /\ mtime = [n \in NFiles |-> 0]
    /\ IdleGazer
    /\ fkind = [n \in NFiles \cup NDirs |-> "none"]
    /\ watched = {Root}
    /\ rawQ = << >>
    /\ rawErrors = << >>
    /\ times = << >>
    /\ nPc = "select"
    /\ nEvent = None
    /\ cPc = "recv"
    /\ received = << >>
    /\ requeued = None
    /\ rqPc = "none"
    /\ pendingPeriod = DefaultPendingPeriod
    /\ rawLog = << >>
    /\ ticks = 0
    /\ IdleNew
    /\ IdleClose

\* ---------------------------------------------- the file system and fsnotify
RawRoom == Len(rawQ) + Len(rawLog) < MaxRaw

\* the watch source reports an operation on a name when the name's directory
\* is watched. At is history: for a rename, the time it was made (an
\* fsnotify event carries no time).
Report(r, op) ==
    IF Dir(Clean(r)) \in watched
    THEN /\ RawRoom
         /\ rawQ' = Append(rawQ, [Name |-> r, Op |-> op,
                                  At |-> IF op = OpRename THEN now ELSE 0])
    ELSE UNCHANGED rawQ

DirExists(name) == IsDir(Dir(name))

NTickClock(d) ==
    /\ ticks < MaxNTicks
    /\ d <= NHorizon - now
    /\ now' = now + d
    /\ ticks' = ticks + 1
    /\ UNCHANGED <<mtime, xvars, gvars, fkind, watched, rawQ, rawErrors, times, nPc,
                   nEvent, cPc, received, requeued, rqPc, rawLog, pendingPeriod>>

WriteFile(r) ==
    /\ Clean(r) \in NFiles
    /\ DirExists(Clean(r))
    /\ fkind[Clean(r)] # "dir"
    /\ fkind' = [fkind EXCEPT ![Clean(r)] = "file"]
    /\ mtime' = [mtime EXCEPT ![Clean(r)] = now]
    /\ Report(r, IF fkind[Clean(r)] = "none" THEN OpCreate ELSE OpWrite)
    /\ UNCHANGED <<now, xvars, gvars, watched, rawErrors, times, nPc, nEvent, cPc,
                   received, requeued, rqPc, rawLog, ticks, pendingPeriod>>

\* a rename: into the name (the file there keeps the modification time of its
\* last write) or away from it (the name no longer exists)
RenameFile(r, into) ==
    /\ IsFile(Clean(r))
    /\ fkind' = [fkind EXCEPT ![Clean(r)] = IF into THEN "file" ELSE "none"]
    /\ Report(r, OpRename)
    /\ UNCHANGED <<tvars, xvars, gvars, watched, rawErrors, times, nPc, nEvent, cPc,
                   received, requeued, rqPc, rawLog, ticks, pendingPeriod>>

RemoveFile(r) ==
    /\ IsFile(Clean(r))
    /\ fkind' = [fkind EXCEPT ![Clean(r)] = "none"]
    /\ Report(r, OpRemove)
    /\ UNCHANGED <<tvars, xvars, gvars, watched, rawErrors, times, nPc, nEvent, cPc,
                   received, requeued, rqPc, rawLog, ticks, pendingPeriod>>

ChmodFile(r) ==
    /\ IsFile(Clean(r))
    /\ Dir(Clean(r)) \in watched
    /\ Report(r, OpChmod)
    /\ UNCHANGED <<tvars, xvars, gvars, fkind, watched, rawErrors, times, nPc, nEvent,
                   cPc, received, requeued, rqPc, rawLog, ticks, pendingPeriod>>

MakeDir(r) ==
    /\ Clean(r) \in NDirs
    /\ fkind[Clean(r)] = "none"
    /\ fkind' = [fkind EXCEPT ![Clean(r)] = "dir"]
    /\ Report(r, OpCreate)
    /\ UNCHANGED <<tvars, xvars, gvars, watched, rawErrors, times, nPc, nEvent, cPc,
                   received, requeued, rqPc, rawLog, ticks, pendingPeriod>>

RawError ==
    /\ Len(rawErrors) < MaxErrors
    /\ nPc # "sendError"
    /\ rawErrors' = Append(rawErrors, "overflow")
    /\ UNCHANGED <<tvars, xvars, gvars, fkind, watched, rawQ, times, nPc, nEvent, cPc,
                   received, requeued, rqPc, rawLog, ticks, pendingPeriod>>

\* ------------------------------------------------------- wait(), 145-178
\* watcher.Add(normalizedName), line 154: called for a created directory; it
\* may fail, and its error is discarded
AddOutcomes(called) == IF called THEN BOOLEAN ELSE {FALSE}

\* FeedRawEvent with times written for every raw event, accepted or not
FeedRawEventStampsAll ==
    /\ nPc = "select"
    /\ rawQ # << >>
    /\ LET event == Head(rawQ)
           normalizedName == Clean(event.Name)
           accept == shouldExecute(normalizedName, event.Op)
       IN  /\ rawQ' = Tail(rawQ)
           /\ \E added \in AddOutcomes(event.Op = OpCreate /\ IsDir(normalizedName)) :
                 watched' = IF added THEN watched \cup {normalizedName} ELSE watched
           /\ rawLog' = Append(rawLog,
                  [Name |-> normalizedName, Op |-> event.Op,
                   File |-> IsFile(normalizedName),
                   Mod |-> IF IsFile(normalizedName)
                           THEN GetFileModifiedTime(normalizedName) ELSE 0,
                   At |-> event.At, Now |-> now, Ok |-> accept])
           /\ times' = MapPut(times, normalizedName, now)
           /\ IF accept
              THEN /\ nEvent' = [Name |-> normalizedName, Time |-> now]
                   /\ nPc' = "sendEvent"
              ELSE UNCHANGED <<nEvent, nPc>>
    /\ UNCHANGED <<tvars, xvars, gvars, fkind, rawErrors, cPc, received, requeued, rqPc, ticks,
                   pendingPeriod>>

\* the case of line 148: one raw event, through to the send of line 170
FeedRawEvent ==
    /\ nPc = "select"
    /\ rawQ # << >>
    /\ LET event == Head(rawQ)
           normalizedName == Clean(event.Name)
           accept == shouldExecute(normalizedName, event.Op)
       IN  /\ rawQ' = Tail(rawQ)
           /\ \E added \in AddOutcomes(event.Op = OpCreate /\ IsDir(normalizedName)) :
                 watched' = IF added THEN watched \cup {normalizedName} ELSE watched
           /\ rawLog' = Append(rawLog,
                  [Name |-> normalizedName, Op |-> event.Op,
                   File |-> IsFile(normalizedName),
                   Mod |-> IF IsFile(normalizedName)
                           THEN GetFileModifiedTime(normalizedName) ELSE 0,
                   At |-> event.At, Now |-> now, Ok |-> accept])
           /\ IF accept
              THEN /\ times' = MapPut(times, normalizedName, now)
                   /\ nEvent' = [Name |-> normalizedName, Time |-> now]
                   /\ nPc' = "sendEvent"
              ELSE UNCHANGED <<times, nEvent, nPc>>
    /\ UNCHANGED <<tvars, xvars, gvars, fkind, rawErrors, cPc, received, requeued, rqPc, ticks,
                   pendingPeriod>>

\* the case of line 171: one raw error, up to the send of line 175. Errors is
\* nil, so that send never completes and wait() stays there.
FeedRawError ==
    /\ nPc = "select"
    /\ rawErrors # << >>
    /\ rawErrors' = Tail(rawErrors)
    /\ nPc' = "sendError"
    /\ UNCHANGED <<tvars, xvars, gvars, fkind, watched, rawQ, times, nEvent, cPc,
                   received, requeued, rqPc, rawLog, ticks, pendingPeriod>>

\* DeliverEvent as a send that does not wait for its receiver: the event is
\* lost when the consumer is not receiving
DeliverEventLossy ==
    /\ nPc = "sendEvent"
    /\ nEvent' = None
    /\ nPc' = "select"
    /\ IF cPc = "recv"
       THEN /\ received' = Append(received, nEvent)
            /\ cPc' = "busy"
       ELSE UNCHANGED <<received, cPc>>
    /\ UNCHANGED <<tvars, xvars, gvars, fkind, watched, rawQ, rawErrors, times,
                   requeued, rqPc, rawLog, ticks, pendingPeriod>>

\* the send of line 170 meets a receive of the consumer (Events is unbuffered)
DeliverEvent ==
    /\ nPc = "sendEvent"
    /\ cPc = "recv"
    /\ received' = Append(received, nEvent)
    /\ nEvent' = None
    /\ nPc' = "select"
    /\ cPc' = "busy"
    /\ UNCHANGED <<tvars, xvars, gvars, fkind, watched, rawQ, rawErrors, times,
                   requeued, rqPc, rawLog, ticks, pendingPeriod>>

\* the consumer has handled its event and receives again
ConsumerReady ==
    /\ cPc = "busy"
    /\ cPc' = "recv"
    /\ UNCHANGED <<tvars, xvars, gvars, fkind, watched, rawQ, rawErrors, times, nPc,
                   nEvent, received, requeued, rqPc, rawLog, ticks, pendingPeriod>>

\* Requeue(event), lines 225-227, called by the consumer with the event it
\* last received: the send on the unbuffered Events waits for a receiver.
Requeue ==
    /\ cPc = "busy"
    /\ requeued = None
    /\ requeued' = received[Len(received)]
    /\ cPc' = "requeue"
    /\ UNCHANGED <<tvars, xvars, gvars, fkind, watched, rawQ, rawErrors, times, nPc,
                   nEvent, received, rqPc, rawLog, ticks, pendingPeriod>>

\* the periods a caller sets
PendingPeriods == {ShortPendingPeriod, DefaultPendingPeriod}

\* PendingPeriod(p), lines 220-222, called by any task while wait() runs
PendingPeriod(p) ==
    /\ pendingPeriod # p
    /\ pendingPeriod' = p
    /\ UNCHANGED <<tvars, xvars, gvars, fkind, watched, rawQ, rawErrors, times, nPc,
                   nEvent, cPc, received, requeued, rqPc, rawLog, ticks>>

NextNotify ==
    \/ \E d \in {NShort, NLong} : NTickClock(d)
    \/ \E r \in RawNames : WriteFile(r)
    \/ \E r \in RawNames, into \in BOOLEAN : RenameFile(r, into)
    \/ \E r \in RawNames : RemoveFile(r)
    \/ \E r \in RawNames : ChmodFile(r)
    \/ \E r \in RawNames : MakeDir(r)
    \/ FeedRawEvent
    \/ DeliverEvent
    \/ ConsumerReady
    \/ Requeue
    \/ \E p \in PendingPeriods : PendingPeriod(p)

SpecNotify == InitNotify /\ [][NextNotify]_vars

\* Scheduling: the feed task and the consumer are goroutines that run when
\* they can; a select whose case is ready again and again takes it.
FairSpecNotify ==
    /\ SpecNotify
    /\ SF_vars(FeedRawEvent)
    /\ WF_vars(DeliverEvent)
    /\ WF_vars(ConsumerReady)

\* --------------------------------------- with the watch source's raw errors
NextErrors ==
    \/ NextNotify
    \/ RawError
    \/ FeedRawError

SpecErrors == InitNotify /\ [][NextErrors]_vars

FairSpecErrors ==
    /\ SpecErrors
    /\ SF_vars(FeedRawEvent)
    /\ SF_vars(FeedRawError)
    /\ WF_vars(DeliverEvent)
    /\ WF_vars(ConsumerReady)

\* ------------------------------------------- Requeue from a task of its own
\* The consumer hands the event it last received to a task that calls
\* Requeue(event), lines 225-227, and goes on; the task waits in the send.
RequeueFromTask ==
    /\ cPc = "busy"
    /\ requeued = None
    /\ rqPc = "none"
    /\ requeued' = received[Len(received)]
    /\ rqPc' = "sending"
    /\ UNCHANGED <<tvars, xvars, gvars, fkind, watched, rawQ, rawErrors, times, nPc,
                   nEvent, cPc, received, rawLog, ticks, pendingPeriod>>

\* the send of line 226 meets a receive of the consumer
DeliverRequeued ==
    /\ rqPc = "sending"
    /\ cPc = "recv"
    /\ received' = Append(received, requeued)
    /\ cPc' = "busy"
    /\ rqPc' = "done"
    /\ UNCHANGED <<tvars, xvars, gvars, fkind, watched, rawQ, rawErrors, times, nPc,
                   nEvent, requeued, rawLog, ticks, pendingPeriod>>

NextRequeue ==
    \/ NextNotify
    \/ RequeueFromTask
    \/ DeliverRequeued

SpecRequeue == InitNotify /\ [][NextRequeue]_vars

\* ===================================================== pkg/notify: New
\* the directories of the file system New looks at
Src == <<"src">>
SrcA == <<"src", "a">>
SrcB == <<"src", "b">>
Lib == <<"lib">>
KDirs == {Src, SrcA, SrcB, Lib}

\* the patterns New may be given
PatGo == <<"*.go">>
PatSrc == <<"src", "*">>
PatNowhere == <<"nowhere", "*.txt">>
PatLib == <<"lib", "x.c">>
KPatterns == {PatGo, PatSrc, PatNowhere, PatLib}

\* strings.IndexAny(entry, "*?[{\\") # -1, for the segments of the patterns
HasGlob(entry) == entry \in {"*", "*.go", "*.txt"}

\* fs.Find(pattern): the directories among the matches of the glob
FindDirs(pattern) ==
    IF pattern = PatSrc THEN <<SrcA, SrcB>>
    ELSE IF pattern \in KDirs \cup {Root} THEN <<pattern>>
    ELSE << >>

\* uniq: an insertion-ordered list without duplicates
UniqAdd(targets, d) ==
    IF \E i \in 1..Len(targets) : targets[i] = d THEN targets ELSE Append(targets, d)

RECURSIVE UniqAddAll(_, _)
UniqAddAll(targets, ds) ==
    IF ds = << >> THEN targets
    ELSE UniqAddAll(UniqAdd(targets, Head(ds)), Tail(ds))

\* findRealDirectory, lines 124-143: the segments before the first one with a
\* glob character, when they name a directory; the empty path otherwise
RECURSIVE LiteralPrefix(_)
LiteralPrefix(entries) ==
    IF entries = << >> \/ HasGlob(Head(entries)) THEN << >>
    ELSE <<Head(entries)>> \o LiteralPrefix(Tail(entries))

findRealDirectory(path) ==
    LET currentPath == LiteralPrefix(Clean(path))
    IN  IF currentPath # << >> /\ IsDir(currentPath) THEN currentPath ELSE << >>

\* findDirs, lines 91-122, from the pattern at index i on with the targets
\* collected so far
RECURSIVE findDirsFrom(_, _, _, _)
findDirsFrom(pats, i, targets, maxWatchDirs) ==
    IF i > Len(pats) THEN targets
    ELSE LET pattern == pats[i]
             patternDir == Dir(pattern)
             realDir == findRealDirectory(patternDir)
             t1 == IF Len(realDir) > 0 THEN UniqAdd(targets, realDir) ELSE targets
             t2 == UniqAddAll(t1, FindDirs(pattern))
             t3 == UniqAddAll(t2, FindDirs(patternDir))
         IN  IF Len(t1) > maxWatchDirs THEN t1
             ELSE IF Len(t2) > maxWatchDirs THEN t2
             ELSE IF Len(t3) > maxWatchDirs THEN t3
             ELSE findDirsFrom(pats, i + 1, t3, maxWatchDirs)

findDirs(pats, maxWatchDirs) == findDirsFrom(pats, 1, << >>, maxWatchDirs)

\* the complete resolved directory set: what the three steps add for every
\* pattern, with no early return
ResolvedOf(pattern) ==
    LET real == findRealDirectory(Dir(pattern))
        found == FindDirs(pattern) \o FindDirs(Dir(pattern))
    IN  (IF real = << >> THEN {} ELSE {real}) \cup {found[i] : i \in 1..Len(found)}

Resolved(pats) == UNION {ResolvedOf(pats[i]) : i \in 1..Len(pats)}

SeqsUpTo(S, n) == UNION {[1..k -> S] : k \in 0..n}

InitNew ==
    /\ now = 0
    /\ mtime = << >>
    /\ IdleGazer
    /\ fkind = [d \in KDirs |-> "dir"]
    /\ watched = {}
    /\ rawQ = << >>
    /\ rawErrors = << >>
    /\ times = << >>
    /\ nPc = "none"
    /\ nEvent = None
    /\ cPc = "recv"
    /\ received = << >>
    /\ requeued = None
    /\ rqPc = "none"
    /\ pendingPeriod = 0
    /\ rawLog = << >>
    /\ ticks = 0
    /\ IdleClose
    /\ kPatterns \in SeqsUpTo(KPatterns, MaxPatterns)
    /\ kMax \in -1..MaxWatch
    /\ kWatcherOk \in BOOLEAN
    /\ kResult = "pending"
    /\ kWatchDirs = << >>
    /\ gBuilt = FALSE

\* New, lines 53-89. watcher.Add may fail for any of the directories; a
\* failure is logged and skipped.
NewNotify ==
    /\ kResult = "pending"
    /\ LET watchDirs == findDirs(kPatterns, kMax)
       IN  IF ~kWatcherOk
           THEN \* fsnotify.NewWatcher failed, lines 55-58
                /\ kResult' = "initError"
                /\ UNCHANGED <<kWatchDirs, watched, nPc, pendingPeriod>>
           ELSE IF Len(watchDirs) > kMax
           THEN \* line 63 slices watchDirs[:maxWatchDirs], which panics for
                \* a negative maxWatchDirs
                /\ kResult' = IF kMax < 0 THEN "panic" ELSE "overflow"
                /\ kWatchDirs' = watchDirs
                /\ UNCHANGED <<watched, nPc, pendingPeriod>>
           ELSE \E failed \in SUBSET {watchDirs[i] : i \in 1..Len(watchDirs)} :
                /\ watched' = {watchDirs[i] : i \in 1..Len(watchDirs)} \ failed
                /\ kWatchDirs' = watchDirs
                /\ kResult' = "ok"
                /\ pendingPeriod' = DefaultPendingPeriod
                /\ nPc' = "select"
    /\ UNCHANGED <<tvars, gvars, cvars, fkind, rawQ, rawErrors, times, nEvent,
                   cPc, received, requeued, rqPc, rawLog, ticks, kPatterns, kMax,
                   kWatcherOk, gBuilt>>

NextNew == NewNotify

SpecNew == InitNew /\ [][NextNew]_vars

\* ======================================================= Close, both types
\* closePc[t], where task t is: "idle"; "g1" at line 46 of gazer.go; "n1" at
\* line 45 of notify.go, "n2" at line 48, "n3" at line 49; "g3" at line 50 of
\* gazer.go; "panicked". closeFn[t] is the Close the task called.
Closers == 1..MaxClosers

InitClose ==
    /\ now = 0
    /\ mtime = << >>
    /\ IdleGazer
    /\ IdleNotify
    /\ IdleNew
    /\ hasNotify \in BOOLEAN
    /\ nIsClosed = FALSE
    /\ gIsClosed = FALSE
    /\ watcherCloses = 0
    /\ closePc = [t \in Closers |-> "idle"]
    /\ closeFn = [t \in Closers |-> "none"]
    /\ closeCalls = 0

CloseRest == <<tvars, gvars, nvars, kvars>>

\* a task calls Gazer.Close or, when there is a Notifier, Notify.Close
CallClose(t, fn) ==
    /\ closePc[t] = "idle"
    /\ closeCalls < MaxCloseCalls
    /\ fn = "notify" => hasNotify
    /\ closeCalls' = closeCalls + 1
    /\ closeFn' = [closeFn EXCEPT ![t] = fn]
    /\ closePc' = [closePc EXCEPT ![t] = IF fn = "gazer" THEN "g1" ELSE "n1"]
    /\ UNCHANGED <<CloseRest, hasNotify, nIsClosed, gIsClosed, watcherCloses>>

\* gazer.go 46-49: return when g.isClosed, else call g.notify.Close()
GazerCloseCheck(t) ==
    /\ closePc[t] = "g1"
    /\ closePc' = [closePc EXCEPT ![t] = IF gIsClosed THEN "idle" ELSE "n1"]
    /\ UNCHANGED <<CloseRest, hasNotify, nIsClosed, gIsClosed, watcherCloses,
                   closeFn, closeCalls>>

\* where Notify.Close returns to
AfterNotifyClose(t) == IF closeFn[t] = "gazer" THEN "g3" ELSE "idle"

\* notify.go 45-47: n.isClosed is read; a nil receiver panics there
NotifyCloseCheck(t) ==
    /\ closePc[t] = "n1"
    /\ closePc' = [closePc EXCEPT ![t] =
                      IF ~hasNotify THEN "panicked"
                      ELSE IF nIsClosed THEN AfterNotifyClose(t)
                      ELSE "n2"]
    /\ UNCHANGED <<CloseRest, hasNotify, nIsClosed, gIsClosed, watcherCloses,
                   closeFn, closeCalls>>

\* notify.go 48: n.watcher.Close()
WatcherClose(t) ==
    /\ closePc[t] = "n2"
    /\ watcherCloses' = watcherCloses + 1
    /\ closePc' = [closePc EXCEPT ![t] = "n3"]
    /\ UNCHANGED <<CloseRest, hasNotify, nIsClosed, gIsClosed, closeFn, closeCalls>>

\* notify.go 49: n.isClosed = true
NotifyCloseSet(t) ==
    /\ closePc[t] = "n3"
    /\ nIsClosed' = TRUE
    /\ closePc' = [closePc EXCEPT ![t] = AfterNotifyClose(t)]
    /\ UNCHANGED <<CloseRest, hasNotify, gIsClosed, watcherCloses, closeFn,
                   closeCalls>>

\* gazer.go 50: g.isClosed = true
GazerCloseSet(t) ==
    /\ closePc[t] = "g3"
    /\ gIsClosed' = TRUE
    /\ closePc' = [closePc EXCEPT ![t] = "idle"]
    /\ UNCHANGED <<CloseRest, hasNotify, nIsClosed, watcherCloses, closeFn,
                   closeCalls>>

NextClose ==
    \/ \E t \in Closers, fn \in {"gazer", "notify"} : CallClose(t, fn)
    \/ \E t \in Closers : GazerCloseCheck(t)
    \/ \E t \in Closers : NotifyCloseCheck(t)
    \/ \E t \in Closers : WatcherClose(t)
    \/ \E t \in Closers : NotifyCloseSet(t)
    \/ \E t \in Closers : GazerCloseSet(t)

SpecClose == InitClose /\ [][NextClose]_vars

\* ===================================================== pkg/gazer: New
\* gazer.New, lines 30-42, on top of notify.New: the Gazer starts without a
\* Notifier and one task may call Close on it once it has been returned.
InitGazerNew ==
    /\ now = 0
    /\ mtime = << >>
    /\ IdleGazer
    /\ fkind = [d \in KDirs |-> "dir"]
    /\ watched = {}
    /\ rawQ = << >>
    /\ rawErrors = << >>
    /\ times = << >>
    /\ nPc = "none"
    /\ nEvent = None
    /\ cPc = "recv"
    /\ received = << >>
    /\ requeued = None
    /\ rqPc = "none"
    /\ pendingPeriod = 0
    /\ rawLog = << >>
    /\ ticks = 0
    /\ kPatterns \in SeqsUpTo(KPatterns, MaxPatterns)
    /\ kMax \in -1..MaxWatch
    /\ kWatcherOk \in BOOLEAN
    /\ kResult = "pending"
    /\ kWatchDirs = << >>
    /\ gBuilt = FALSE
    /\ hasNotify = FALSE
    /\ nIsClosed = FALSE
    /\ gIsClosed = FALSE
    /\ watcherCloses = 0
    /\ closePc = [t \in Closers |-> "idle"]
    /\ closeFn = [t \in Closers |-> "none"]
    /\ closeCalls = 0

\* lines 36-41: `notify, _ := notify.New(...)` drops New's error and the Gazer
\* is built around whatever New returned, nil after an error. A panic of
\* notify.New leaves gazer.New without a result.
GazerNew ==
    /\ kResult \notin {"pending", "panic"}
    /\ ~gBuilt
    /\ gBuilt' = TRUE
    /\ hasNotify' = (kResult = "ok")
    /\ UNCHANGED <<tvars, gvars, nvars, kPatterns, kMax, kWatcherOk, kResult,
                   kWatchDirs, nIsClosed, gIsClosed, watcherCloses, closePc,
                   closeFn, closeCalls>>

\* the caller's task, which holds the Gazer once it is built
Caller == 1

NextGazerNew ==
    \/ NewNotify
    \/ GazerNew
    \/ gBuilt /\ CallClose(Caller, "gazer")
    \/ GazerCloseCheck(Caller)
    \/ NotifyCloseCheck(Caller)
    \/ WatcherClose(Caller)
    \/ NotifyCloseSet(Caller)
    \/ GazerCloseSet(Caller)

SpecGazerNew == InitGazerNew /\ [][NextGazerNew]_vars

\* ------------------------------------------------------------------ claims
AliveProcs == {i \in 1..Len(procs) : Alive(i)}

\* C1: in restartable mode at most one subprocess started by the dispatcher is
\* alive at any time.
C1_AtMostOneAlive == restart => Cardinality(AliveProcs) <= 1

\* what wait() did with the raw events of one name, oldest first
LogOf(p) ==
    LET keep(e) == e.Name = p IN SelectSeq(rawLog, keep)

\* a write or create event for a name that was a regular file when processed
IsWriteEntry(e) == e.Op \in {OpWrite, OpCreate} /\ e.File

\* the first two raw events of p are writes of a regular file whose
\* modification times, as read when each is processed, are less than
\* pendingPeriod apart
TwoCloseWrites(p) ==
    /\ Len(LogOf(p)) >= 2
    /\ IsWriteEntry(LogOf(p)[1])
    /\ IsWriteEntry(LogOf(p)[2])
    /\ LogOf(p)[2].Mod - LogOf(p)[1].Mod < pendingPeriod * NsPerMs

\* the step is wait() judging the second raw event of p
JudgesSecond(p) ==
    /\ Len(LogOf(p)) = 1
    /\ Len(rawLog') = Len(rawLog) + 1
    /\ rawLog'[Len(rawLog')].Name = p

\* C2: a regular file that receives two write (or create) raw events whose
\* modifications are less than pendingPeriod apart, pendingPeriod being the
\* value in force when the second is judged, gets exactly one LogicalEvent:
\* the first is accepted and the second is not, however late each raw event
\* is processed.
C2_CoalescedWrites ==
    [][\A p \in NFiles :
          (JudgesSecond(p) /\ TwoCloseWrites(p)')
             => LogOf(p)[1].Ok /\ ~rawLog'[Len(rawLog')].Ok]_vars

\* C2 witness: two distinct modifications, 50 ms apart, the second processed
\* after a delay
C2_Witness ==
    \E p \in NFiles :
        /\ TwoCloseWrites(p)
        /\ LogOf(p)[2].Mod > LogOf(p)[1].Mod
        /\ LogOf(p)[2].Now > LogOf(p)[2].Mod
        /\ LogOf(p)[1].Ok
        /\ ~LogOf(p)[2].Ok

\* after PendingPeriod(10), two writes 50 ms apart are not within the period
\* and both are accepted
ShortPeriodAcceptsBoth ==
    \E p \in NFiles :
        /\ pendingPeriod = ShortPendingPeriod
        /\ Len(LogOf(p)) = 2
        /\ IsWriteEntry(LogOf(p)[1])
        /\ IsWriteEntry(LogOf(p)[2])
        /\ LogOf(p)[2].Mod - LogOf(p)[1].Mod = NShort
        /\ LogOf(p)[1].Ok
        /\ LogOf(p)[2].Ok

\* a rename event for a name that was a regular file when processed
IsRenameEntry(e) == e.Op = OpRename /\ e.File

\* C3 amended: a rename of a regular file yields exactly one LogicalEvent when
\* the file's modification time is at most regardRenameAsModPeriod before the
\* time the feed task processes the rename event, and none when it is older;
\* what times holds for the name makes no difference.
C3_RenameAsModification ==
    \A i \in 1..Len(rawLog) :
        IsRenameEntry(rawLog[i]) =>
            (rawLog[i].Ok <=>
                rawLog[i].Now - rawLog[i].Mod <= regardRenameAsModPeriod * NsPerMs)

\* C3: a rename of a regular file made at most regardRenameAsModPeriod after
\* the file's last write yields exactly one LogicalEvent, and a rename of a
\* file whose modification time is older than that at the rename yields none,
\* whenever the feed task gets to the event.
C3_RenameWithinWindow ==
    \A i \in 1..Len(rawLog) :
        IsRenameEntry(rawLog[i]) =>
            (rawLog[i].Ok <=>
                rawLog[i].At - rawLog[i].Mod <= regardRenameAsModPeriod * NsPerMs)

\* C3 witness: a write is accepted and, less than pendingPeriod later, the rename of the
\* same file is accepted too
C3_Witness ==
    \E p \in NFiles :
        /\ Len(LogOf(p)) = 2
        /\ IsWriteEntry(LogOf(p)[1])
        /\ LogOf(p)[1].Ok
        /\ IsRenameEntry(LogOf(p)[2])
        /\ LogOf(p)[2].Ok
        /\ LogOf(p)[2].Now - LogOf(p)[1].Now < DefaultPendingPeriod * NsPerMs
        /\ pendingPeriod = DefaultPendingPeriod

\* a rename of a file last modified more than regardRenameAsModPeriod ago is
\* rejected
C3_WitnessOld ==
    \E i \in 1..Len(rawLog) :
        /\ IsRenameEntry(rawLog[i])
        /\ ~rawLog[i].Ok
        /\ rawLog[i].Now - rawLog[i].Mod > regardRenameAsModPeriod * NsPerMs

\* C4: Counter() equals the number of commands the dispatcher has started.
C4_CounterIsDispatched == counter = Len(procs)

\* C5: Requeue(event) returns and the consumer's next receive yields that event.
C5_RequeueThenReceive ==
    (cPc = "requeue") ~> (cPc = "busy" /\ received[Len(received)] = requeued)

\* C6: forwarding a raw error never blocks the feed task for good: it comes
\* back to its select, where later raw events are normalized.
C6_ErrorForwarded == (nPc = "sendError") ~> (nPc = "select")

\* New's outcome agrees with the size of the complete resolved set
OverflowAgrees ==
    /\ (kResult = "overflow") <=> (Cardinality(Resolved(kPatterns)) > kMax)
    /\ kResult = "overflow" => watched = {}
    /\ Cardinality(Resolved(kPatterns)) <= kMax => kResult = "ok"

\* C9: for all pattern lists and all values of maxWatchDirs, New (with a watch
\* source that initializes) returns the overflow error exactly when the
\* complete resolved set has more than maxWatchDirs elements, with nothing
\* added to the watch source, and succeeds otherwise.
C9_OverflowExactly == (kResult # "pending" /\ kWatcherOk) => OverflowAgrees

\* the same for maxWatchDirs >= 0: the early return of findDirs changes nothing
FindDirsEarlyReturnHarmless ==
    (kResult # "pending" /\ kWatcherOk /\ kMax >= 0) => OverflowAgrees

\* C10: however many Close calls are made on a Notifier or on a Gazer that has
\* one, sequentially or concurrently, the watch source is closed exactly once
\* and no call panics.
C10_ClosedOnce ==
    hasNotify =>
        /\ watcherCloses <= 1
        /\ \A t \in Closers : closePc[t] # "panicked"
        /\ (nIsClosed \/ gIsClosed) => watcherCloses = 1

\* the same for every Gazer, also one whose Notifier is nil
C10_NoClosePanics == \A t \in Closers : closePc[t] # "panicked"

\* the loop is blocked in executeCommandOrTimeout with no timeout on a process
\* that never finishes
HungWait ==
    /\ gPc = "wait"
    /\ timeout <= 0
    /\ hangs

\* C7: once the interrupt has been delivered, Run eventually returns, in both
\* modes and for every timeout, also with a subprocess that never finishes.
C7_RunReturns == sigInt ~> (gPc = "returned")

\* C7 amended: once the interrupt has been delivered, Run eventually returns
\* unless the loop is blocked, in blocking mode with timeout <= 0, on a
\* subprocess that never finishes; and Run returns only from the select, never
\* out of the processing of an event.
C7_RunReturnsUnlessHung ==
    /\ sigInt ~> (gPc = "returned" \/ HungWait)
    /\ [][gPc' = "returned" /\ gPc # "returned" => gPc = "select" /\ sigInt]_vars

\* C7 witness: in blocking mode an event was processed to its end, the
\* subprocess is over, and Run has returned on the interrupt
C7_Witness ==
    /\ gPc = "returned"
    /\ isDisposed
    /\ ~restart
    /\ Len(procs) > 0
    /\ Over(Len(procs))

\* C8: while the interrupt is pending on the signal channel no further command
\* is dispatched.
C8_NoDispatchAfterInterrupt == [][sigInt => Len(procs') = Len(procs)]_vars

\* the LogicalEvents wait() has accepted so far, in the order of the raw events
RECURSIVE AcceptedOf(_)
AcceptedOf(log) ==
    IF log = << >> THEN << >>
    ELSE LET rest == AcceptedOf(SubSeq(log, 1, Len(log) - 1))
             e == log[Len(log)]
         IN  IF e.Ok THEN Append(rest, [Name |-> e.Name, Time |-> e.Now]) ELSE rest

\* C11: when Requeue is not used, the events the consumer has received are a
\* prefix of the events the feed task accepted, in the order of the raw
\* events, and the only accepted event not yet received is the one the feed
\* task is sending: nothing is dropped, duplicated or reordered.
C11_ReceivedInOrder ==
    requeued = None =>
        AcceptedOf(rawLog) = IF nPc = "sendEvent"
                             THEN Append(received, nEvent)
                             ELSE received

\* C11 witness: one event was received, the consumer is still busy with it and
\* the feed task is stalled on the send of the next accepted event
C11_Witness ==
    /\ requeued = None
    /\ Len(received) = 1
    /\ cPc = "busy"
    /\ nPc = "sendEvent"
    /\ nEvent # received[1]

\* C12: a setup error of notify.New yields no Gazer: every Gazer handed to the
\* caller has its Notifier, and Close on it never meets a missing Notifier.
C12_NoPartialGazer ==
    /\ gBuilt => hasNotify
    /\ kResult \in {"initError", "overflow"} => ~gBuilt
    /\ closePc[Caller] # "panicked"

\* the step is the select's event case taking the pending event
TakesEvent == gEvents # None /\ gEvents' = None

\* the pending event passes the pattern filter and the debounce and has a rule
Dispatchable ==
    /\ gEvents # None
    /\ matchAny(patterns, gEvents)
    /\ getAppropriateCommand(gEvents, commandConfigs) # << >>
    /\ GetFileModifiedTime(gEvents) - lastExecutionTime >= ignorePeriod

\* C13: the loop is left only on the interrupt signal, whatever happened to
\* earlier subprocesses and events, and an event that matches a pattern and a
\* rule and was modified at least ignorePeriod after the last dispatch is
\* dispatched when the loop takes it.
C13_LoopKeepsRunning ==
    [][/\ (gPc' = "returned" /\ gPc # "returned") => sigInt
       /\ (TakesEvent /\ Dispatchable) => Len(procs') = Len(procs) + 1]_vars

\* C13 witness: in restartable mode a command failed to be killed because it
\* had finished, an event without a rule was skipped, the next command was
\* killed by its timeout, no interrupt was delivered and the loop is at its
\* select
C13_Witness ==
    /\ restart
    /\ timeout > 0
    /\ Len(procs) = 2
    /\ procs[1].st = "exited"
    /\ procs[1].sup = "go"
    /\ procs[2].st = "killed"
    /\ counter > Len(procs)
    /\ ~sigInt
    /\ gPc = "select"

\* a command has been dispatched for the path before
DispatchedFor(p) ==
    \E i \in 1..Len(procs) : procs[i].cmd = getAppropriateCommand(p, commandConfigs)

\* C14: the debounce is per path: an event for a path that matches a pattern
\* and a rule and for which no command has been dispatched yet is never
\* ignored by the debounce, whatever was dispatched for other paths.
C14_DebouncePerPath ==
    [][(/\ TakesEvent
        /\ matchAny(patterns, gEvents)
        /\ getAppropriateCommand(gEvents, commandConfigs) # << >>
        /\ ~DispatchedFor(gEvents))
       => Len(procs') = Len(procs) + 1]_vars

\* C15: in restartable mode every subprocess that is still running is the one
\* the tracked handle refers to: a supervision task never clears the handle of
\* a newer process.
C15_HandleTracksRunning ==
    restart => \A i \in AliveProcs : ongoingCommand = i

\* the raw events of p that wait() accepted, oldest first
AcceptedLogOf(p) ==
    LET ok(e) == e.Name = p /\ e.Ok IN SelectSeq(rawLog, ok)

\* times holds, for every name, the time of the last accepted raw event of
\* that name and nothing for a name without one
TimesAreAcceptTimes ==
    \A p \in NFiles \cup NDirs \cup {Root} :
        IF AcceptedLogOf(p) = << >>
        THEN p \notin DOMAIN times
        ELSE /\ p \in DOMAIN times
             /\ times[p] = AcceptedLogOf(p)[Len(AcceptedLogOf(p))].Now

\* a step changes times only by accepting one raw event, for that event's name
\* only, and never to a smaller value
TimesStep ==
    times' # times =>
        /\ Len(rawLog') = Len(rawLog) + 1
        /\ rawLog'[Len(rawLog')].Ok
        /\ \A p \in DOMAIN times' :
              /\ p # rawLog'[Len(rawLog')].Name => p \in DOMAIN times /\ times'[p] = times[p]
              /\ MapGet(times, p) <= times'[p]

\* C16: lastExecutionTime[path] of the Normalizer is written exactly once per
\* accepted raw event of the path, never for a rejected raw event or by
\* Requeue, and its values never decrease.
C16_TimesWrittenOncePerAccept == []TimesAreAcceptTimes /\ [][TimesStep]_vars

\* C16 witness: a first raw event of a path was accepted, the consumer called
\* Requeue with it, and a later raw event of the path was rejected; times
\* holds the first event's time
C16_Witness ==
    \E p \in NFiles :
        /\ Len(LogOf(p)) = 2
        /\ LogOf(p)[1].Ok
        /\ ~LogOf(p)[2].Ok
        /\ LogOf(p)[2].Now > LogOf(p)[1].Now
        /\ requeued # None
        /\ times[p] = LogOf(p)[1].Now

\* C17: every LogicalEvent a consumer can receive from the Events stream, sent
\* by the feed task or by a task in Requeue, names a path that is a regular
\* file at the moment its send begins;
\* raw events for directories, deleted paths and transient paths produce none.
C17_EventsNameFiles ==
    /\ [](\A i \in 1..Len(rawLog) : rawLog[i].Ok => rawLog[i].File)
    /\ [][/\ (nPc' = "sendEvent" /\ nPc # "sendEvent") => IsFile(nEvent'.Name)
          /\ (rqPc' = "sending" /\ rqPc # "sending") => IsFile(requeued'.Name)]_vars

\* the watch source has reported a raw event for the name
Observed(p) ==
    \/ \E i \in 1..Len(rawQ) : Clean(rawQ[i].Name) = p
    \/ \E i \in 1..Len(rawLog) : rawLog[i].Name = p

\* C18: the watch set only grows, by directories that exist when they are
\* added, and a write of a file inside a directory created after watch start
\* is observed (the least it takes to yield a LogicalEvent), wherever the
\* feed task was when the directory was created.
C18_NewDirWritesObserved ==
    /\ [][/\ watched \subseteq watched'
          /\ \A d \in watched' \ watched : IsDir(d)]_vars
    /\ [](IsFile(NFileF) => Observed(NFileF))

\* the pending event passes the pattern filter and the debounce and has no rule
Ruleless ==
    /\ gEvents # None
    /\ matchAny(patterns, gEvents)
    /\ GetFileModifiedTime(gEvents) - lastExecutionTime >= ignorePeriod
    /\ getAppropriateCommand(gEvents, commandConfigs) = << >>

\* C19: an event without a matching rule leaves the supervision state as it
\* is: no process is killed or created, the tracked handle and the time of the
\* last dispatch keep their values and the loop stays at its select.
C19_SkipLeavesSupervision ==
    [][(TakesEvent /\ Ruleless) =>
          /\ procs' = procs
          /\ ongoingCommand' = ongoingCommand
          /\ lastExecutionTime' = lastExecutionTime
          /\ gPc' = gPc]_vars

\* C19 witness: in restartable mode, with the tracked process running and one
\* event without a rule already skipped, the loop is about to take another
\* event without a rule
C19_Witness ==
    /\ restart
    /\ gPc = "select"
    /\ Ruleless
    /\ counter > Len(procs)
    /\ counter < MaxCounter
    /\ ongoingCommand # 0
    /\ Alive(ongoingCommand)

\* C20: in blocking mode a subprocess is alive only while the loop waits for
\* it, so at most one is alive and no event is taken meanwhile; the loop comes
\* back to its select only when the subprocess is over; and the time of the
\* last dispatch is the time read before the run, which the end of the run
\* does not change.
C20_BlockingRun ==
    /\ [](~restart =>
            /\ Cardinality(AliveProcs) <= 1
            /\ AliveProcs # {} => gPc = "wait" /\ AliveProcs = {Len(procs)})
    /\ [][~restart =>
            /\ TakesEvent => AliveProcs = {}
            /\ (gPc = "wait" /\ gPc' = "select") =>
                  Over(Len(procs)) /\ lastExecutionTime' = lastExecutionTime
            /\ Len(procs') > Len(procs) => lastExecutionTime' = now]_vars

\* C20 witness: in blocking mode the subprocess is running, time has passed
\* since it was dispatched and an event is waiting to be received
C20_Witness ==
    /\ ~restart
    /\ gPc = "wait"
    /\ Alive(Len(procs))
    /\ now > lastExecutionTime
    /\ gEvents # None

====
